---- MODULE Spec2Model ----
(***************************************************************************)
(* Model of src/src/main.rs (anaglyph_robot): two cameras are negotiated   *)
(* by cam(), each gets a capture thread that publishes decoded frames into *)
(* an Arc<RwLock<Vec<u8>>>, and the main thread composites both buffers in *)
(* the winit event-loop callback.                                          *)
(***************************************************************************)
EXTENDS Integers, Sequences, FiniteSets, TLC

VARIABLES
    args,       \* Cli as parsed: width, height and the three flip flags
    device,     \* per camera: the V4L2 device behind the path (environment)
    mainpc,     \* position of the main thread
    cur,        \* camera the main thread is working on (cam call / image_to_uniforms call)
    devLock,    \* per camera: holder of RwLock<Device> ("free", "main", "worker")
    requests,   \* per camera: Formats passed to dev.set_format, in order
    format,     \* per camera: Format returned by dev.format() (NoFormat before)
    buffer,     \* per camera: contents of the ImageBuffer Vec<u8>
    rwlock,     \* per camera: state of the ImageBuffer RwLock [writer, reader]
    wpc,        \* per camera: position of the capture thread
    buf,        \* per camera: capture thread local (buf, then data)
    delivered,  \* per camera: buffers returned by stream.next(), in order
    pubLog,     \* per camera: payloads assigned to the ImageBuffer, in order
    data,       \* per camera: the clone image_to_uniforms took in this callback
    drawn,      \* cameras drawn on the current target
    ticks,      \* callback invocations started
    presented,  \* target.finish() calls completed
    window,     \* TRUE once the window/display exists
    target,     \* the frame being drawn: rows (top first) of RGBA pixels
    event       \* the winit event the running callback was invoked with

vars == <<args, device, mainpc, cur, devLock, requests, format, buffer, rwlock,
          wpc, buf, delivered, pubLog, data, drawn, ticks, presented, window,
          target, event>>

Cameras == {1, 2}

(* ---------------------------- bounds ---------------------------------- *)
\* buffers the two devices deliver in a run, in total
MaxDeliveries == 2
\* event-loop callback invocations in a run
MaxTicks == 1

(* ------------------------- pixel encodings ---------------------------- *)
RGB3 == "RGB3"
MJPG == "MJPG"
YUYV == "YUYV"
FourCCs == {RGB3, MJPG, YUYV}

NoFormat == [fourcc |-> "none", width |-> 0, height |-> 0]

\* (width, height) pairs the command line may request
Sizes == {<<2, 1>>, <<1, 1>>}

\* struct Cli; the flip flags default to false
Cli(w, h, flip1, flip2, flipx) ==
    [width |-> w, height |-> h, camera1_flip_y |-> flip1,
     camera2_flip_y |-> flip2, flip_x |-> flipx]

(* ------------------------------ devices ------------------------------- *)
\* A device: the encodings and sizes its driver supports, the encoding and
\* size it falls back to, and the call (if any) that fails with an I/O error.
Dev(sup, native, sizes, defsize, fails) ==
    [supports |-> sup, native |-> native, sizes |-> sizes,
     defsize |-> defsize, fails |-> fails]

Devices ==
    { Dev({RGB3, MJPG}, RGB3, Sizes, <<2, 1>>, "none"),
      Dev({MJPG, YUYV}, YUYV, {<<2, 1>>}, <<2, 1>>, "none"),
      Dev({RGB3}, RGB3, Sizes, <<2, 1>>, "none"),
      Dev({YUYV}, YUYV, Sizes, <<1, 1>>, "none"),
      Dev({MJPG}, MJPG, Sizes, <<2, 1>>, "open"),
      Dev({MJPG}, MJPG, Sizes, <<2, 1>>, "set_format"),
      Dev({MJPG}, MJPG, Sizes, <<2, 1>>, "format"),
      Dev({MJPG}, MJPG, Sizes, <<2, 1>>, "params") }

\* The devices tried behind the second path: an MJPG/YUYV camera, an RGB3
\* camera, and two that fail
SecondDevices ==
    { Dev({MJPG, YUYV}, YUYV, {<<2, 1>>}, <<2, 1>>, "none"),
      Dev({RGB3}, RGB3, Sizes, <<2, 1>>, "none"),
      Dev({MJPG}, MJPG, Sizes, <<2, 1>>, "open"),
      Dev({MJPG}, MJPG, Sizes, <<2, 1>>, "params") }

\* VIDIOC_S_FMT as the driver answers it: the requested encoding and size when
\* supported, otherwise the driver's own choice; the call itself succeeds.
DriverFormat(d, req) ==
    LET fcc == IF req.fourcc \in d.supports THEN req.fourcc ELSE d.native
        sz  == IF <<req.width, req.height>> \in d.sizes
               THEN <<req.width, req.height>> ELSE d.defsize
    IN [fourcc |-> fcc, width |-> sz[1], height |-> sz[2]]

\* The Format cam() asks for: Format::new(width, height, FourCC::new(b"MJPG"))
RequestedFormatRgb(w, h) == [fourcc |-> RGB3, width |-> w, height |-> h]
RequestedFormat(w, h) == [fourcc |-> MJPG, width |-> w, height |-> h]

(* --------------------------- capture buffers -------------------------- *)
\* A compressed buffer: a start marker, the image's width and height, and
\* the colour of its pixels.
Jpeg(w, h, v) == <<216, w, h, v>>

\* What a device may hand over in one buffer: two 2x1 JPEG frames, a 1x1 JPEG
\* frame, and three bytes that are no JPEG.
Buffers == { Jpeg(2, 1, 1), Jpeg(2, 1, 2), Jpeg(1, 1, 3), <<0, 0, 0>> }

\* jpeg::Decoder::new(buf).decode(): Ok(pixels) with 3 bytes per pixel of the
\* image's own dimensions, or Err for a buffer that is no JPEG.
Decode(b) ==
    IF Len(b) = 4 /\ b[1] = 216 /\ b[2] > 0 /\ b[3] > 0
    THEN [ok |-> TRUE,  data |-> [i \in 1..(b[2] * b[3] * 3) |-> b[4]]]
    ELSE [ok |-> FALSE, data |-> <<>>]

\* The match on format.fourcc.repr: the payload to publish, or "continue".
ToDataNoSkip(fourcc, b) ==
    CASE fourcc = RGB3 -> [ok |-> TRUE, data |-> b]
      [] fourcc = MJPG -> [ok |-> TRUE, data |-> Decode(b).data]
      [] OTHER         -> [ok |-> FALSE, data |-> <<>>]
ToData(fourcc, b) ==
    CASE fourcc = RGB3 -> [ok |-> TRUE, data |-> b]
      [] fourcc = MJPG -> Decode(b)
      [] OTHER         -> [ok |-> FALSE, data |-> <<>>]

\* Bytes RawImage2d::from_raw_rgb_reversed / Texture2d::new expect for a Format
FrameLen(f) == f.width * f.height * 3

\* Element i of s, or garbage (0) past its end
At(s, i) == IF i \in 1..Len(s) THEN s[i] ELSE 0

(* ------------------------------ locks --------------------------------- *)
Unlocked == [writer |-> FALSE, reader |-> FALSE, poisoned |-> FALSE]

\* A panic unwinds the thread's stack: a write guard it holds is dropped and
\* poisons the lock
Unwind(l) ==
    IF l.writer THEN [writer |-> FALSE, reader |-> l.reader, poisoned |-> TRUE] ELSE l

\* The guard on the RwLock<Device> is dropped at the end of cam()'s block
DevKept(h) == h
DevRelease(h) == "free"

\* RwLock::read() returns once no writer holds the lock
CanReadShared(c) == TRUE
CanRead(c) == ~rwlock[c].writer

\* RwLock::write() returns once nobody holds the lock
CanWrite(c) == ~rwlock[c].writer /\ ~rwlock[c].reader

\* The write guard is a temporary of the assignment statement: dropped at its end
WriteKept(l) == l
WriteRelease(l) == [l EXCEPT !.writer = FALSE]

\* The read guard is a temporary of the clone statement: dropped at its end
ReadRelease(l) == [l EXCEPT !.reader = FALSE]

\* The ImageBuffer the render closure passes for camera c
\* (raw_image1 for camera 1, raw_image2 for camera 2)
ImageOfFirst(c) == 1
ImageOf(c) == c

\* The ? operator in main and cam: an Err returns it to the caller, and main
\* returning Err ends the process; Ok goes on to the next statement
TryIgnored(failed, next) == next
Try(failed, next) == IF failed THEN "exit_err" ELSE next

(* ----------------------------- rendering ----------------------------- *)
\* Events winit hands to the closure under ControlFlow::Poll
Events == {"RedrawRequested", "AboutToWait", "CloseRequested"}

\* The drawable surface of the borderless fullscreen window, taken to have the
\* requested resolution
ScreenSize == <<args.width, args.height>>

\* target.clear_color(0.0, 0.0, 0.0, 0.0) on a surface of w x h pixels
Blank(w, h) == [r \in 1..h |-> [x \in 1..w |-> <<0, 0, 0, 0>>]]

\* RawImage2d::from_raw_rgb_reversed: the rows (chunks of width*3 bytes) in
\* reverse order, so that the texture's first row is the image's last
FromRawRgbSame(d, w) == d
FromRawRgbReversed(d, w) ==
    LET rows == Len(d) \div (w * 3)
    IN  [i \in 1..Len(d) |->
            d[(rows - 1 - ((i - 1) \div (w * 3))) * (w * 3) + ((i - 1) % (w * 3)) + 1]]

\* texture(tex, coords) on an RGB texture: the texel of column col and texture
\* row trow (both from 0), with alpha 1.0
Texel(tex, w, col, trow) ==
    LET k == (trow * w + col) * 3
    IN  <<tex[k + 1], tex[k + 2], tex[k + 3], 255>>

\* v_tex_coords of the fragment at surface row r (from the top) and column x
\* (from the left), both from 1, as numerators over one = <<2*w, 2*h>>:
\* position (-1,-1), the bottom left, carries tex_coords (0,0)
FragCoords(r, x, one) == <<2 * (x - 1) + 1, one[2] - (2 * (r - 1) + 1)>>

\* The fragment shader's body: {flip_y} then {flip_x}; 1.0 is one[1], one[2]
NewTexCoordsYOnly(flip_y, flip_x, t, one) ==
    LET a == IF flip_y THEN <<t[1], one[2] - t[2]>> ELSE t
    IN  IF flip_x THEN <<one[1] - a[1], a[2]>> ELSE a
NewTexCoords(flip_y, flip_x, t, one) ==
    LET a == IF flip_y THEN <<one[1] - t[1], one[2] - t[2]>> ELSE t
    IN  IF flip_x THEN <<one[1] - a[1], a[2]>> ELSE a

\* flip_y of program_camera1 / program_camera2
FlipY(c) == IF c = 1 THEN args.camera1_flip_y ELSE args.camera2_flip_y

\* color_mask of the two draw calls
ColorMaskSwapped(c) == IF c = 1 THEN <<FALSE, TRUE, TRUE, TRUE>> ELSE <<TRUE, FALSE, FALSE, TRUE>>
ColorMask(c) == IF c = 1 THEN <<TRUE, FALSE, FALSE, TRUE>> ELSE <<FALSE, TRUE, TRUE, TRUE>>

\* glium::Blend::alpha_blending(): source * alpha + destination * (1 - alpha),
\* for the colour and for the alpha channel
AlphaBlend(src, dst) ==
    [i \in 1..4 |-> (src[i] * src[4] + dst[i] * (255 - src[4])) \div 255]

\* The pixel a draw call leaves: the blended value in the masked channels
Masked(dst, out, mask) == [i \in 1..4 |-> IF mask[i] THEN out[i] ELSE dst[i]]

\* target.draw(..): the full-screen quad of camera c, textured with tex of Format f
DrawQuad(tgt, c, tex, f) ==
    LET h   == Len(tgt)
        w   == Len(tgt[1])
        one == <<2 * w, 2 * h>>
    IN  [r \in 1..h |-> [x \in 1..w |->
            LET t   == NewTexCoords(FlipY(c), args.flip_x, FragCoords(r, x, one), one)
                col == (t[1] * f.width) \div one[1]
                row == (t[2] * f.height) \div one[2]
                src == Texel(tex, f.width, col, row)
            IN  Masked(tgt[r][x], AlphaBlend(src, tgt[r][x]), ColorMask(c))]]

\* The process runs: main has neither returned nor panicked
Terminal == {"exit_ok", "exit_err", "panicked"}
Running == mainpc \notin Terminal

Init ==
    /\ \E s \in Sizes : args = Cli(s[1], s[2], FALSE, FALSE, FALSE)
    /\ device \in {d \in [Cameras -> Devices] : d[2] \in SecondDevices}
    /\ mainpc = "cam_open"
    /\ cur = 1
    /\ devLock = [c \in Cameras |-> "free"]
    /\ requests = [c \in Cameras |-> <<>>]
    /\ format = [c \in Cameras |-> NoFormat]
    /\ buffer = [c \in Cameras |-> <<>>]
    /\ rwlock = [c \in Cameras |-> Unlocked]
    /\ wpc = [c \in Cameras |-> "none"]
    /\ buf = [c \in Cameras |-> <<>>]
    /\ delivered = [c \in Cameras |-> <<>>]
    /\ pubLog = [c \in Cameras |-> <<>>]
    /\ data = [c \in Cameras |-> <<>>]
    /\ drawn = {}
    /\ ticks = 0
    /\ presented = 0
    /\ window = FALSE
    /\ target = <<>>
    /\ event = "none"

(* ------------------------- cam(): negotiation ------------------------- *)
\* let dev = RwLock::new(Device::with_path(path)?);
CamOpen ==
    /\ mainpc = "cam_open"
    /\ mainpc' = Try(device[cur].fails = "open", "cam_lock")
    /\ UNCHANGED <<args, device, cur, devLock, requests, format, buffer, rwlock,
                   wpc, buf, delivered, pubLog, data, drawn, ticks, presented, window,
                   target, event>>

\* let dev = dev.write().unwrap();
CamLock ==
    /\ mainpc = "cam_lock"
    /\ devLock[cur] = "free"
    /\ devLock' = [devLock EXCEPT ![cur] = "main"]
    /\ mainpc' = "cam_set_format"
    /\ UNCHANGED <<args, device, cur, requests, format, buffer, rwlock,
                   wpc, buf, delivered, pubLog, data, drawn, ticks, presented, window,
                   target, event>>

\* dev.set_format(&Format::new(width, height, FourCC::new(b"MJPG"))).context(..)?
\* An error returns from cam(), dropping the guard.
CamSetFormat ==
    /\ mainpc = "cam_set_format"
    /\ requests' = [requests EXCEPT
                      ![cur] = Append(@, RequestedFormat(args.width, args.height))]
    /\ mainpc' = Try(device[cur].fails = "set_format", "cam_format")
    /\ devLock' = IF mainpc' = "exit_err"
                  THEN [devLock EXCEPT ![cur] = "free"] ELSE devLock
    /\ UNCHANGED <<args, device, cur, format, buffer, rwlock,
                   wpc, buf, delivered, pubLog, data, drawn, ticks, presented, window,
                   target, event>>

\* format = dev.format()?;   no check of the encoding the device reports
CamFormat ==
    /\ mainpc = "cam_format"
    /\ mainpc' = Try(device[cur].fails = "format", "cam_params")
    /\ IF mainpc' = "exit_err"
       THEN /\ devLock' = [devLock EXCEPT ![cur] = "free"]
            /\ UNCHANGED format
       ELSE /\ format' = [format EXCEPT
                  ![cur] = DriverFormat(device[cur], requests[cur][Len(requests[cur])])]
            /\ UNCHANGED devLock
    /\ UNCHANGED <<args, device, cur, requests, buffer, rwlock,
                   wpc, buf, delivered, pubLog, data, drawn, ticks, presented, window,
                   target, event>>

\* params = dev.params()?;
CamParams ==
    /\ mainpc = "cam_params"
    /\ mainpc' = Try(device[cur].fails = "params", "cam_unlock")
    /\ devLock' = IF mainpc' = "exit_err"
                  THEN [devLock EXCEPT ![cur] = "free"] ELSE devLock
    /\ UNCHANGED <<args, device, cur, requests, format, buffer, rwlock,
                   wpc, buf, delivered, pubLog, data, drawn, ticks, presented, window,
                   target, event>>

\* end of the block: the write guard on the device is dropped
CamUnlock ==
    /\ mainpc = "cam_unlock"
    /\ devLock' = [devLock EXCEPT ![cur] = DevRelease(@)]
    /\ mainpc' = "cam_spawn"
    /\ UNCHANGED <<args, device, cur, requests, format, buffer, rwlock,
                   wpc, buf, delivered, pubLog, data, drawn, ticks, presented, window,
                   target, event>>

\* let buffer = Arc::new(RwLock::new(Vec::new())); thread::spawn(..); Ok((buffer, format))
\* and, in main, the next cam() call or the event loop.
CamSpawn ==
    /\ mainpc = "cam_spawn"
    /\ buffer' = [buffer EXCEPT ![cur] = <<>>]
    /\ rwlock' = [rwlock EXCEPT ![cur] = Unlocked]
    /\ wpc' = [wpc EXCEPT ![cur] = "devlock"]
    /\ IF cur = 1
       THEN /\ cur' = 2
            /\ mainpc' = "cam_open"
       ELSE /\ cur' = 0
            /\ mainpc' = "event_loop"
    /\ UNCHANGED <<args, device, devLock, requests, format,
                   buf, delivered, pubLog, data, drawn, ticks, presented, window,
                   target, event>>

cam ==
    \/ CamOpen
    \/ CamLock
    \/ CamSetFormat
    \/ CamFormat
    \/ CamParams
    \/ CamUnlock
    \/ CamSpawn

(* ------------------------- the capture thread ------------------------- *)
Deliveries == Len(delivered[1]) + Len(delivered[2])

\* let dev = dev.write().unwrap();
WDevLock(c) ==
    /\ Running
    /\ wpc[c] = "devlock"
    /\ devLock[c] = "free"
    /\ devLock' = [devLock EXCEPT ![c] = "worker"]
    /\ wpc' = [wpc EXCEPT ![c] = "stream"]
    /\ UNCHANGED <<args, device, mainpc, cur, requests, format, buffer, rwlock,
                   buf, delivered, pubLog, data, drawn, ticks, presented, window,
                   target, event>>

\* MmapStream::with_buffers(&dev, Type::VideoCapture, buffer_count).unwrap()
\* An error panics the thread; unwinding drops the device guard.
WStream(c) ==
    /\ Running
    /\ wpc[c] = "stream"
    /\ \E ok \in BOOLEAN :
         IF ok
         THEN /\ wpc' = [wpc EXCEPT ![c] = "next"]
              /\ UNCHANGED devLock
         ELSE /\ wpc' = [wpc EXCEPT ![c] = "dead"]
              /\ devLock' = [devLock EXCEPT ![c] = "free"]
    /\ rwlock' = IF wpc'[c] = "dead" THEN [rwlock EXCEPT ![c] = Unwind(@)] ELSE rwlock
    /\ UNCHANGED <<args, device, mainpc, cur, requests, format, buffer,
                   buf, delivered, pubLog, data, drawn, ticks, presented, window,
                   target, event>>

\* let (buf, _) = stream.next().unwrap();
\* The device hands over a buffer, or the call fails and the thread panics.
WNext(c) ==
    /\ Running
    /\ wpc[c] = "next"
    /\ \/ /\ Deliveries < MaxDeliveries
          /\ \E b \in Buffers :
               /\ delivered' = [delivered EXCEPT ![c] = Append(@, b)]
               /\ buf' = [buf EXCEPT ![c] = b]
          /\ wpc' = [wpc EXCEPT ![c] = "match"]
          /\ UNCHANGED devLock
       \/ /\ wpc' = [wpc EXCEPT ![c] = "dead"]
          /\ devLock' = [devLock EXCEPT ![c] = "free"]
          /\ UNCHANGED <<buf, delivered>>
    /\ rwlock' = IF wpc'[c] = "dead" THEN [rwlock EXCEPT ![c] = Unwind(@)] ELSE rwlock
    /\ UNCHANGED <<args, device, mainpc, cur, requests, format, buffer,
                   pubLog, data, drawn, ticks, presented, window,
                   target, event>>

\* let data = match &format.fourcc.repr { .. };  ("continue" on an error)
WMatch(c) ==
    /\ Running
    /\ wpc[c] = "match"
    /\ LET r == ToData(format[c].fourcc, buf[c])
       IN  IF r.ok
           THEN /\ buf' = [buf EXCEPT ![c] = r.data]
                /\ wpc' = [wpc EXCEPT ![c] = "write"]
           ELSE /\ buf' = [buf EXCEPT ![c] = <<>>]
                /\ wpc' = [wpc EXCEPT ![c] = "next"]
    /\ UNCHANGED <<args, device, mainpc, cur, devLock, requests, format, buffer, rwlock,
                   delivered, pubLog, data, drawn, ticks, presented, window,
                   target, event>>

\* buffer.write().unwrap(): a poisoned lock panics the thread
WLock(c) ==
    /\ Running
    /\ wpc[c] = "write"
    /\ CanWrite(c)
    /\ IF rwlock[c].poisoned
       THEN /\ wpc' = [wpc EXCEPT ![c] = "dead"]
            /\ devLock' = [devLock EXCEPT ![c] = "free"]
            /\ UNCHANGED rwlock
       ELSE /\ rwlock' = [rwlock EXCEPT ![c].writer = TRUE]
            /\ wpc' = [wpc EXCEPT ![c] = "assign"]
            /\ UNCHANGED devLock
    /\ UNCHANGED <<args, device, mainpc, cur, requests, format, buffer,
                   buf, delivered, pubLog, data, drawn, ticks, presented, window,
                   target, event>>

\* *guard = data;  and the guard is dropped
WStore(c) ==
    /\ Running
    /\ wpc[c] = "assign"
    /\ buffer' = [buffer EXCEPT ![c] = buf[c]]
    /\ pubLog' = [pubLog EXCEPT ![c] = Append(@, buf[c])]
    /\ rwlock' = [rwlock EXCEPT ![c] = WriteRelease(@)]
    /\ buf' = [buf EXCEPT ![c] = <<>>]
    /\ wpc' = [wpc EXCEPT ![c] = "next"]
    /\ UNCHANGED <<args, device, mainpc, cur, devLock, requests, format,
                   delivered, data, drawn, ticks, presented, window,
                   target, event>>

worker(c) ==
    \/ WDevLock(c)
    \/ WStream(c)
    \/ WNext(c)
    \/ WMatch(c)
    \/ WLock(c)
    \/ WStore(c)

(* ----------------------- main(): the render loop ---------------------- *)
\* let event_loop = winit::event_loop::EventLoop::new()?;
EventLoopNew ==
    /\ mainpc = "event_loop"
    /\ \E ok \in BOOLEAN : mainpc' = Try(~ok, "window")
    /\ UNCHANGED <<args, device, cur, devLock, requests, format, buffer, rwlock,
                   wpc, buf, delivered, pubLog, data, drawn, ticks, presented, window,
                   target, event>>

\* SimpleWindowBuilder::new().build(&event_loop) .. program_camera2
WindowBuild ==
    /\ mainpc = "window"
    /\ window' = TRUE
    /\ mainpc' = "run"
    /\ UNCHANGED <<args, device, cur, devLock, requests, format, buffer, rwlock,
                   wpc, buf, delivered, pubLog, data, drawn, ticks, presented,
                   target, event>>

\* The closure is called with an event, whatever its kind:
\* let mut target = display.draw(); target.clear_color(0.0, 0.0, 0.0, 0.0)
TickClear ==
    /\ mainpc = "run"
    /\ ticks < MaxTicks
    /\ \E e \in Events : event' = e
    /\ target' = Blank(ScreenSize[1], ScreenSize[2])
    /\ ticks' = ticks + 1
    /\ drawn' = {}
    /\ data' = [c \in Cameras |-> <<>>]
    /\ cur' = 1
    /\ mainpc' = "img_read"
    /\ UNCHANGED <<args, device, devLock, requests, format, buffer, rwlock,
                   wpc, buf, delivered, pubLog, presented, window>>

\* image_to_uniforms: buffer.read().unwrap(): a poisoned lock panics main
ImgRead ==
    /\ mainpc = "img_read"
    /\ CanRead(ImageOf(cur))
    /\ IF rwlock[ImageOf(cur)].poisoned
       THEN /\ mainpc' = "panicked"
            /\ UNCHANGED rwlock
       ELSE /\ mainpc' = "img_clone"
            /\ rwlock' = [rwlock EXCEPT ![ImageOf(cur)].reader = TRUE]
    /\ UNCHANGED <<args, device, cur, devLock, requests, format, buffer,
                   wpc, buf, delivered, pubLog, data, drawn, ticks, presented, window,
                   target, event>>

\* .clone(): the first half of the bytes is copied
ImgClone ==
    /\ mainpc = "img_clone"
    /\ LET src == buffer[ImageOf(cur)]
       IN  data' = [data EXCEPT ![cur] = [i \in 1..(Len(src) \div 2) |-> src[i]]]
    /\ mainpc' = "img_clone_end"
    /\ UNCHANGED <<args, device, cur, devLock, requests, format, buffer, rwlock,
                   wpc, buf, delivered, pubLog, drawn, ticks, presented, window,
                   target, event>>

\* The camera after cur in the callback, and where the main thread goes for it
NextPc == IF cur = 1 THEN "img_read" ELSE "finish"
NextCur == IF cur = 1 THEN 2 ELSE 0

\* .clone(): the rest is copied and the read guard dropped;
\* if data.is_empty() { return None; }
ImgCloneEnd ==
    /\ mainpc = "img_clone_end"
    /\ LET src  == buffer[ImageOf(cur)]
           done == Len(data[cur])
           all  == [i \in 1..(IF Len(src) > done THEN Len(src) ELSE done) |->
                      IF i <= done THEN data[cur][i] ELSE At(src, i)]
       IN  /\ data' = [data EXCEPT ![cur] = all]
           /\ IF all = <<>>
              THEN /\ mainpc' = NextPc
                   /\ cur' = NextCur
              ELSE /\ mainpc' = "img_texture"
                   /\ UNCHANGED cur
    /\ rwlock' = [rwlock EXCEPT ![ImageOf(cur)] = ReadRelease(@)]
    /\ UNCHANGED <<args, device, devLock, requests, format, buffer,
                   wpc, buf, delivered, pubLog, drawn, ticks, presented, window,
                   target, event>>

\* RawImage2d::from_raw_rgb_reversed(&data, (format.width, format.height));
\* Texture2d::new(&display, image).unwrap(): glium panics when the data is
\* not width*height*3 bytes.
ImgTexture ==
    /\ mainpc = "img_texture"
    /\ mainpc' = IF Len(data[cur]) = FrameLen(format[cur]) THEN "draw" ELSE "panicked"
    /\ UNCHANGED <<args, device, cur, devLock, requests, format, buffer, rwlock,
                   wpc, buf, delivered, pubLog, data, drawn, ticks, presented, window,
                   target, event>>

\* target.draw(&vertex_buffer, &index_buffer, &program_cameraN, &uniforms, ..).unwrap()
Draw ==
    /\ mainpc = "draw"
    /\ target' = DrawQuad(target, cur, FromRawRgbReversed(data[cur], format[cur].width),
                          format[cur])
    /\ drawn' = drawn \cup {cur}
    /\ mainpc' = NextPc
    /\ cur' = NextCur
    /\ UNCHANGED <<args, device, devLock, requests, format, buffer, rwlock,
                   wpc, buf, delivered, pubLog, data, ticks, presented, window,
                   event>>

\* target.finish().unwrap(); on CloseRequested elwt.exit() ends run() and main;
\* the closure returns and its event is gone
Finish ==
    /\ mainpc = "finish"
    /\ presented' = presented + 1
    /\ mainpc' = IF event = "CloseRequested" THEN "exit_ok" ELSE "run"
    /\ event' = "none"
    /\ UNCHANGED <<args, device, cur, devLock, requests, format, buffer, rwlock,
                   wpc, buf, delivered, pubLog, data, drawn, ticks, window,
                   target>>

\* One call of the closure given to event_loop.run
callback ==
    \/ TickClear
    \/ ImgRead
    \/ ImgClone
    \/ ImgCloneEnd
    \/ ImgTexture
    \/ Draw
    \/ Finish

render ==
    \/ EventLoopNew
    \/ WindowBuild
    \/ callback

Next ==
    \/ cam
    \/ render
    \/ \E c \in Cameras : worker(c)

Spec == Init /\ [][Next]_vars

(* ------------- the callback alone, on frames already published -------- *)
\* Surface and frame sizes for the callback taken alone
RenderSizes == {<<1, 1>>, <<2, 1>>, <<1, 2>>, <<2, 2>>}

\* An RGB frame of w x h pixels, all of colour p
Solid(w, h, p) == [i \in 1..(w * h * 3) |-> p[((i - 1) % 3) + 1]]

\* An RGB frame whose pixel at row 0, column 0 is the marker colour
Marker(w, h) == [i \in 1..(w * h * 3) |->
                   IF i <= 3 THEN <<200, 100, 50>>[i] ELSE <<10, 20, 30>>[((i - 1) % 3) + 1]]

Red == <<255, 0, 0>>
Blue == <<0, 0, 255>>
Frames(w, h) == {Solid(w, h, Red), Solid(w, h, Blue), Marker(w, h)}

\* Both cameras negotiated RGB3 at the requested size, the window exists, each
\* capture thread has published one frame and waits for the next buffer
InitRender ==
    \E sz \in RenderSizes, f1, f2, fx \in BOOLEAN :
      \E i1, i2 \in Frames(sz[1], sz[2]) :
        /\ args = Cli(sz[1], sz[2], f1, f2, fx)
        /\ device = [c \in Cameras |-> Dev({RGB3}, RGB3, {sz}, sz, "none")]
        /\ mainpc = "run"
        /\ cur = 0
        /\ devLock = [c \in Cameras |-> "worker"]
        /\ requests = [c \in Cameras |-> <<RequestedFormat(sz[1], sz[2])>>]
        /\ format = [c \in Cameras |-> [fourcc |-> RGB3, width |-> sz[1], height |-> sz[2]]]
        /\ buffer = <<i1, i2>>
        /\ rwlock = [c \in Cameras |-> Unlocked]
        /\ wpc = [c \in Cameras |-> "next"]
        /\ buf = [c \in Cameras |-> <<>>]
        /\ delivered = <<<<i1>>, <<i2>>>>
        /\ pubLog = <<<<i1>>, <<i2>>>>
        /\ data = [c \in Cameras |-> <<>>]
        /\ drawn = {}
        /\ ticks = 0
        /\ presented = 0
        /\ window = TRUE
        /\ target = <<>>
        /\ event = "none"

SpecRender == InitRender /\ [][callback]_vars

(* ====================== properties of the program ===================== *)
Range(s) == {s[i] : i \in 1..Len(s)}

\* The payload of the last completed assignment to camera c's ImageBuffer
LastPub(c) == IF pubLog[c] = <<>> THEN <<>> ELSE pubLog[c][Len(pubLog[c])]

\* image_to_uniforms has finished cloning camera c's buffer in the latest callback
CloneDone(c) ==
    \/ mainpc \in {"img_texture", "draw", "panicked"} /\ c <= cur
    \/ mainpc \in {"img_read", "img_clone", "img_clone_end"} /\ c < cur
    \/ mainpc \in {"finish", "run", "exit_ok"} /\ ticks > 0

\* The capture thread of camera c holds a delivered buffer it has not finished with
InFlight(c) == wpc[c] \in {"match", "write", "assign"}

\* The payloads the successfully decoded buffers of s give, in order
RECURSIVE DecodedOf(_)
DecodedOf(s) ==
    IF s = <<>> THEN <<>>
    ELSE LET r == Decode(s[1])
         IN  (IF r.ok THEN <<r.data>> ELSE <<>>) \o DecodedOf(Tail(s))

\* The delivered buffers the capture thread of camera c has finished with
Processed(c) ==
    IF InFlight(c) THEN SubSeq(delivered[c], 1, Len(delivered[c]) - 1)
    ELSE delivered[c]

(* C1: whatever the interleaving of the capture thread's assignments with the
   render closure's reads, a completed clone of camera c's buffer is empty or
   is exactly one of the payloads the thread assigned: never a mixture of two
   payloads or a part of one. *)
C1_CloneIsWholeFrame ==
    \A c \in Cameras :
        CloneDone(c) => (data[c] = <<>> \/ data[c] \in Range(pubLog[c]))

\* A clone of the first frame is held while the thread has since published another
C1_Witness ==
    \E c \in Cameras :
        /\ CloneDone(c)
        /\ Len(pubLog[c]) = 2
        /\ pubLog[c][1] # pubLog[c][2]
        /\ data[c] = pubLog[c][1]
        /\ data[c] # <<>>

(* C2: for each camera, on the RGB3 and the MJPG path, the ImageBuffer holds
   0 bytes or exactly width*height*3 bytes of the camera's Format, whatever
   the device delivers and whatever the dimensions of the decoded JPEG. *)
C2_PayloadLength ==
    \A c \in Cameras :
        wpc[c] # "none" => Len(buffer[c]) \in {0, FrameLen(format[c])}

(* C3: when a clone of camera c's buffer completes, it equals the payload of
   the last assignment to that camera's buffer completed before the read
   (empty if there was none): a superseded frame is never read, and the value
   is a function of camera c's own publishes only. *)
C3_ReadsLastPublish ==
    [][(mainpc = "img_clone_end" /\ mainpc' # "img_clone_end")
         => data'[cur] = LastPub(cur)]_vars

\* A clone equal to the second publish, which superseded a different first one
C3_Witness ==
    \E c \in Cameras :
        /\ CloneDone(c)
        /\ Len(pubLog[c]) = 2
        /\ pubLog[c][1] # pubLog[c][2]
        /\ data[c] = pubLog[c][2]

(* C4: no ImageBuffer lock is held while its holder waits for a device buffer,
   decodes, uploads a texture or draws: the capture thread holds the write
   lock only for the assignment, the render closure holds a read lock only
   for the clone, and only the lock of the camera it is cloning. *)
C4_LocksOnlyAroundCopy ==
    /\ \A c \in Cameras : rwlock[c].writer => wpc[c] = "assign"
    /\ \A c \in Cameras :
         rwlock[c].reader => (mainpc \in {"img_clone", "img_clone_end"} /\ cur = c)

\* Camera 2 is being drawn, holding no lock, while camera 1's thread holds its
\* write lock for the assignment
C4_Witness ==
    /\ mainpc = "draw"
    /\ cur = 2
    /\ rwlock[1].writer
    /\ wpc[1] = "assign"
    /\ \A c \in Cameras : ~rwlock[c].reader

(* C5: for an MJPG capture thread, the assignments to the ImageBuffer are
   exactly the decoded payloads of the delivered buffers that decode, in
   order (N good buffers, N updates); a buffer that fails to decode leaves
   the ImageBuffer as it was and the thread goes on to the next buffer. *)
C5_SkipsMalformed ==
    /\ [](\A c \in Cameras :
            format[c].fourcc = MJPG =>
              /\ pubLog[c] = DecodedOf(Processed(c))
              /\ (wpc[c] = "assign" => pubLog[c] \o <<buf[c]>> = DecodedOf(delivered[c]))
              /\ buffer[c] = LastPub(c))
    /\ [][\A c \in Cameras :
            (/\ format[c].fourcc = MJPG
             /\ wpc[c] = "match"
             /\ ~Decode(buf[c]).ok
             /\ wpc'[c] # "match")
            => (wpc'[c] = "next" /\ buffer'[c] = buffer[c] /\ pubLog'[c] = pubLog[c])]_vars

\* One malformed and one good buffer were delivered, one update happened, and
\* the thread is back waiting for the next buffer
C5_Witness ==
    \E c \in Cameras :
        /\ format[c].fourcc = MJPG
        /\ Len(delivered[c]) = 2
        /\ ~Decode(delivered[c][1]).ok
        /\ Decode(delivered[c][2]).ok
        /\ Len(pubLog[c]) = 1
        /\ wpc[c] = "next"

\* cam() returned Err for camera c (main then returns it)
CamFailed(c) == mainpc = "exit_err" /\ cur = c

\* cam() returned Ok for camera c: its buffer exists and its thread was spawned
CamOk(c) == wpc[c] # "none"

\* The positions of cam() up to and including the call that fails on device d
UpToFailure(d) ==
    CASE d.fails = "open"       -> {"cam_open"}
      [] d.fails = "set_format" -> {"cam_open", "cam_lock", "cam_set_format"}
      [] d.fails = "format"     -> {"cam_open", "cam_lock", "cam_set_format", "cam_format"}
      [] d.fails = "params"     -> {"cam_open", "cam_lock", "cam_set_format", "cam_format",
                                    "cam_params"}
      [] OTHER                  -> {}

(* C6: for a device that accepts direct RGB, the first set_format asks for
   RGB3 and the Format returned is tagged RGB3; MJPG is asked for only after
   the RGB3 attempt. *)
C6_RgbFirst ==
    \A c \in Cameras :
        (RGB3 \in device[c].supports /\ device[c].fails = "none") =>
            /\ requests[c] # <<>> => requests[c][1].fourcc = RGB3
            /\ CamOk(c) => format[c].fourcc = RGB3

(* C7: for every requested resolution and a device that rejects direct RGB
   but accepts MJPG, cam() raises no error and the Format it returns is
   tagged MJPG. *)
C7_MjpgFallback ==
    \A c \in Cameras :
        (/\ RGB3 \notin device[c].supports
         /\ MJPG \in device[c].supports
         /\ device[c].fails = "none") =>
            /\ ~CamFailed(c)
            /\ format[c] # NoFormat => format[c].fourcc = MJPG
            /\ CamOk(c) => format[c].fourcc = MJPG

\* cam() has returned an MJPG Format for such a device although 1x1 was requested
\* and the device only does 2x1
C7_Witness ==
    \E c \in Cameras :
        /\ RGB3 \notin device[c].supports
        /\ MJPG \in device[c].supports
        /\ device[c].fails = "none"
        /\ CamOk(c)
        /\ format[c].fourcc = MJPG
        /\ <<args.width, args.height>> = <<1, 1>>
        /\ <<format[c].width, format[c].height>> = <<2, 1>>

(* C8: cam() never returns success with a Format whose encoding is neither
   RGB3 nor MJPG: for such a device no capture thread is spawned and the
   render loop is never entered. *)
C8_OnlyKnownEncodings ==
    \A c \in Cameras :
        (format[c] # NoFormat /\ format[c].fourcc \notin {RGB3, MJPG}) =>
            /\ ~CamOk(c)
            /\ ~window
            /\ ticks = 0

(* C9: the window is created and the render loop entered only after cam()
   has succeeded for both cameras; when a call of cam() fails for camera 1
   or camera 2, main goes no further than that call: it ends with the error,
   without a window and without a callback. *)
C9_WindowAfterBothCams ==
    /\ (window \/ ticks > 0 \/ mainpc \in {"event_loop", "window", "run", "exit_ok"}) =>
          \A c \in Cameras : CamOk(c) /\ format[c] # NoFormat /\ device[c].fails = "none"
    /\ \A c \in Cameras :
          device[c].fails # "none" =>
             /\ ~window /\ ticks = 0 /\ presented = 0
             /\ cur \in 1..c
             /\ cur = c => mainpc \in UpToFailure(device[c]) \cup {"exit_err"}
             /\ ~CamOk(c)
    /\ \A c \in Cameras : CamFailed(c) => (~window /\ ticks = 0 /\ ~CamOk(c))

\* cam() failed for camera 2 after camera 1's thread had already published
C9_Witness ==
    /\ CamFailed(2)
    /\ device[2].fails # "none"
    /\ pubLog[1] # <<>>
    /\ ~window

(* C10: in every callback a camera whose ImageBuffer is empty is not drawn,
   and a callback that found a buffer empty does not fail: the other camera
   (if it has a frame) is drawn and the target is presented. *)
C10_EmptySkipped ==
    /\ \A c \in drawn : data[c] # <<>>
    /\ mainpc = "panicked" => \A c \in Cameras : ~(CloneDone(c) /\ data[c] = <<>>)
    /\ (mainpc = "finish" /\ (\E c \in Cameras : data[c] = <<>>)) =>
          drawn = {c \in Cameras : data[c] # <<>>}

\* The positions of the main thread inside a call of the closure
InCallback ==
    mainpc \in {"img_read", "img_clone", "img_clone_end", "img_texture", "draw", "finish"}

\* The positions of the main thread inside cam()
InCam ==
    mainpc \in {"cam_open", "cam_lock", "cam_set_format", "cam_format", "cam_params",
                "cam_unlock", "cam_spawn"}

\* The other camera
Other(c) == 3 - c

(* C11: when the capture thread of one camera has terminated on a device
   error, its ImageBuffer lock is neither held nor poisoned, the buffer keeps
   the last published payload from then on, the render closure can still
   take the read lock, and the other camera's thread can still take its steps. *)
C11_FailureIsolated ==
    /\ [](\A c \in Cameras :
            /\ ~rwlock[c].poisoned
            /\ wpc[c] = "dead" =>
                 /\ ~rwlock[c].writer
                 /\ buffer[c] = LastPub(c)
                 /\ (mainpc = "img_read" /\ cur = c) => (CanRead(c) /\ ENABLED ImgRead)
                 /\ (Running /\ wpc[Other(c)] \in {"stream", "match", "assign"})
                       => ENABLED worker(Other(c))
                 /\ (Running /\ wpc[Other(c)] = "write" /\ ~rwlock[Other(c)].reader)
                       => ENABLED WLock(Other(c)))
    /\ [][\A c \in Cameras :
            wpc[c] = "dead" => (wpc'[c] = "dead" /\ buffer'[c] = buffer[c])]_vars

\* Camera 1's thread is dead, the closure has cloned its last frame, and camera
\* 2's thread is publishing
C11_Witness ==
    /\ wpc[1] = "dead"
    /\ buffer[1] # <<>>
    /\ CloneDone(1)
    /\ data[1] = buffer[1]
    /\ wpc[2] = "assign"

(* C12: a capture thread whose Format is neither RGB3 nor MJPG terminates on
   the first buffer delivered: it takes no further buffer and publishes
   nothing. *)
C12_UnknownEncodingFatal ==
    \A c \in Cameras :
        (/\ CamOk(c)
         /\ format[c].fourcc \notin {RGB3, MJPG}
         /\ delivered[c] # <<>>
         /\ wpc[c] # "match") =>
            /\ wpc[c] = "dead"
            /\ Len(delivered[c]) = 1
            /\ pubLog[c] = <<>>

\* Pixel (row, col), both from 0, of an RGB frame d of width w
PixelOf(d, w, row, col) ==
    LET k == (row * w + col) * 3 IN <<d[k + 1], d[k + 2], d[k + 3]>>

(* C13: with an all-red frame from camera 1 and an all-blue frame from
   camera 2, after the two draws every pixel of the target is red 255 (from
   camera 1), green 0, blue 255 (from camera 2), alpha 255; and camera 1's
   draw never changes a green or blue value, camera 2's draw never a red one. *)
C13_ChannelMasks ==
    /\ []((/\ mainpc = "finish"
           /\ data[1] = Solid(args.width, args.height, Red)
           /\ data[2] = Solid(args.width, args.height, Blue)) =>
             \A r \in 1..Len(target) : \A x \in 1..Len(target[r]) :
                 target[r][x] = <<255, 0, 255, 255>>)
    /\ [][(mainpc = "draw" /\ mainpc' # "draw") =>
            \A r \in 1..Len(target) : \A x \in 1..Len(target[r]) :
               /\ cur = 1 => (target'[r][x][2] = target[r][x][2]
                              /\ target'[r][x][3] = target[r][x][3])
               /\ cur = 2 => target'[r][x][1] = target[r][x][1]]_vars

\* The red/blue scenario on a 2x2 surface, both cameras drawn
C13_Witness ==
    /\ mainpc = "finish"
    /\ <<args.width, args.height>> = <<2, 2>>
    /\ data[1] = Solid(2, 2, Red)
    /\ data[2] = Solid(2, 2, Blue)
    /\ drawn = {1, 2}
    /\ target[2][2] = <<255, 0, 255, 255>>

(* C14: with vertical flip for camera 1 only and no horizontal flip, for
   every width and height camera 1's pixel at row 0, column 0 is rendered at
   row height-1, column width-1, and camera 2's pixel at row 0, column 0 is
   rendered at row 0, column 0. *)
C14_FlipScenario ==
    (/\ mainpc = "finish"
     /\ drawn = {1, 2}
     /\ args.camera1_flip_y /\ ~args.camera2_flip_y /\ ~args.flip_x) =>
        LET w == args.width
            h == args.height
        IN  /\ target[h][w][1] = PixelOf(data[1], w, 0, 0)[1]
            /\ target[1][1][2] = PixelOf(data[2], w, 0, 0)[2]
            /\ target[1][1][3] = PixelOf(data[2], w, 0, 0)[3]

\* Both cameras deliver the marker frame on a 2x2 surface: camera 1's marker is
\* at the bottom right, camera 2's at the top left
C14_Witness ==
    /\ mainpc = "finish"
    /\ drawn = {1, 2}
    /\ args.camera1_flip_y /\ ~args.camera2_flip_y /\ ~args.flip_x
    /\ <<args.width, args.height>> = <<2, 2>>
    /\ data[1] = Marker(2, 2)
    /\ data[2] = Marker(2, 2)
    /\ target[2][2] = <<200, 20, 30, 255>>
    /\ target[1][1] = <<10, 100, 50, 255>>

(* C15: one composite per display refresh (a composite runs only for a redraw
   event), with the steps in the order clear, camera 1, camera 2, present;
   the target is presented exactly once per composite, never between the
   draws. *)
C15_OnePerRefresh ==
    /\ InCallback => event = "RedrawRequested"
    /\ InCallback => presented = ticks - 1
    /\ (cur = 1 /\ InCallback) => drawn = {}
    /\ drawn \subseteq {c \in Cameras : CloneDone(c)}
    /\ (window /\ ~InCallback) => presented = ticks

(* C16: once a camera has delivered a buffer that decoded and its ImageBuffer
   is non-empty, the render loop stays alive and every callback that reads
   the buffer non-empty draws that camera. *)
C16_DrawnOnceAvailable ==
    \A c \in Cameras :
        buffer[c] # <<>> =>
            /\ mainpc # "panicked"
            /\ (mainpc = "finish" /\ data[c] # <<>>) => c \in drawn

(* C17: the main thread's use of a Device is over and its guard dropped before
   that camera's capture thread asks for the lock; after the spawn only the
   thread uses the device, so neither acquisition ever waits, and the thread,
   holding the device for its lifetime, waits for its ImageBuffer lock only
   while the render closure is in the clone, which needs no device lock. *)
C17_DeviceHandOff ==
    \A c \in Cameras :
        /\ devLock[c] = "main" <=>
              (cur = c /\ mainpc \in {"cam_set_format", "cam_format", "cam_params",
                                     "cam_unlock"})
        /\ devLock[c] = "main" => wpc[c] = "none"
        /\ wpc[c] = "devlock" => devLock[c] = "free"
        /\ (mainpc = "cam_lock" /\ cur = c) => devLock[c] = "free"
        /\ devLock[c] = "worker" <=>
              wpc[c] \in {"stream", "next", "match", "write", "assign"}
        /\ CamOk(c) => ~(cur = c /\ InCam)
        /\ (wpc[c] = "write" /\ ~CanWrite(c)) =>
              (mainpc \in {"img_clone", "img_clone_end"} /\ cur = c /\ ENABLED callback)

\* Camera 1's thread holds its device and waits for the ImageBuffer lock, which
\* the render closure holds for the clone
C17_Witness ==
    /\ devLock[1] = "worker"
    /\ wpc[1] = "write"
    /\ rwlock[1].reader
    /\ mainpc = "img_clone_end"

(* C18: a camera's capture thread is spawned by the step that ends that
   camera's successful cam() call and by no other: never for a camera whose
   cam() failed, possibly while the other camera is still being negotiated,
   and its ImageBuffer is empty until its first publish. *)
C18_SpawnAfterOwnNegotiation ==
    /\ [](\A c \in Cameras :
            /\ CamOk(c) => (/\ format[c] # NoFormat
                            /\ requests[c] # <<>>
                            /\ device[c].fails = "none")
            /\ device[c].fails # "none" => (wpc[c] = "none" /\ pubLog[c] = <<>>)
            /\ pubLog[c] = <<>> => buffer[c] = <<>>)
    /\ [][\A c \in Cameras :
            /\ (wpc[c] = "none" /\ wpc'[c] # "none") =>
                  (mainpc = "cam_spawn" /\ cur = c /\ wpc'[c] = "devlock"
                   /\ buffer'[c] = <<>>)
            /\ (InCam /\ cur = c /\ cur' # c) => wpc'[c] = "devlock"]_vars

\* Camera 1's thread has published while camera 2 is still being negotiated
C18_Witness ==
    /\ cur = 2
    /\ mainpc = "cam_set_format"
    /\ pubLog[1] # <<>>
    /\ wpc[2] = "none"

(* C19: the fragment transform is the camera's vertical-flip step (which also
   mirrors x) followed by the global horizontal-flip step: with both enabled
   the x mirrors cancel and the image is flipped vertically only, and the
   transform applied twice gives back every texture coordinate. *)
C19_FlipComposition ==
    LET w   == args.width
        h   == args.height
        one == <<2 * w, 2 * h>>
    IN  /\ \A c \in Cameras : \A r \in 1..h : \A x \in 1..w :
              LET t  == FragCoords(r, x, one)
                  t1 == NewTexCoords(FlipY(c), args.flip_x, t, one)
              IN  /\ NewTexCoords(FlipY(c), args.flip_x, t1, one) = t
                  /\ (FlipY(c) /\ args.flip_x) => t1 = <<t[1], one[2] - t[2]>>
        /\ (mainpc = "finish" /\ 1 \in drawn /\ args.camera1_flip_y /\ args.flip_x) =>
              \A r \in 1..h : \A x \in 1..w :
                  target[r][x][1] = PixelOf(data[1], w, h - r, x - 1)[1]

\* Both flips on for camera 1, marker frame, 2x2: the marker of row 0, column 0
\* is rendered at the bottom left
C19_Witness ==
    /\ mainpc = "finish"
    /\ 1 \in drawn
    /\ args.camera1_flip_y /\ args.flip_x
    /\ <<args.width, args.height>> = <<2, 2>>
    /\ data[1] = Marker(2, 2)
    /\ target[2][1][1] = 200
    /\ target[1][1][1] = 10

====
